---- MODULE Spec2Model ----
(***************************************************************************)
(* Model of propensityagent.py: the rule engine evaluate_rules, the static *)
(* OFFER_CATALOG and the form submission that calls evaluate_rules on the  *)
(* client record.                                                          *)
(*                                                                         *)
(* Python values are tagged with their type, so that str.lower() and the   *)
(* integer comparisons can raise as they do in Python.  A str is the       *)
(* sequence of its characters, so that lower() is computed character by    *)
(* character.  The en dashes of the Timeline texts are written "-".  The   *)
(* key client_name, which evaluate_rules never reads, is left out of the   *)
(* records.                                                                *)
(***************************************************************************)
EXTENDS Integers, Sequences, FiniteSets, TLC

VARIABLES client, submitted, recs, raised

vars == <<client, submitted, recs, raised>>

(***************************************************************************)
(* Python values                                                           *)
(***************************************************************************)
PyStr(s) == [t |-> "str", v |-> s]
PyInt(n) == [t |-> "int", v |-> n]
PyBool(b) == [t |-> "bool", v |-> b]
None == [t |-> "NoneType", v |-> 0]

UpperToLower ==
    [A |-> "a", B |-> "b", C |-> "c", D |-> "d", E |-> "e", F |-> "f",
     G |-> "g", H |-> "h", I |-> "i", J |-> "j", K |-> "k", L |-> "l",
     M |-> "m", N |-> "n", O |-> "o", P |-> "p", Q |-> "q", R |-> "r",
     S |-> "s", T |-> "t", U |-> "u", V |-> "v", W |-> "w", X |-> "x",
     Y |-> "y", Z |-> "z"]

LowerChar(c) == IF c \in DOMAIN UpperToLower THEN UpperToLower[c] ELSE c

\* str.lower(): every cased character replaced by its lowercase form.
Lower(s) == [i \in 1..Len(s) |-> LowerChar(s[i])]

UpperChar(c) ==
    IF \E u \in DOMAIN UpperToLower : UpperToLower[u] = c
    THEN CHOOSE u \in DOMAIN UpperToLower : UpperToLower[u] = c
    ELSE c

\* The label a selectbox shows for a lower-case option: each word capitalised.
Title(s) ==
    [i \in 1..Len(s) |->
        IF i = 1 THEN UpperChar(s[i])
        ELSE IF s[i - 1] = " " THEN UpperChar(s[i]) ELSE s[i]]

\* Python truth value of an object (used by `and`, `or`, `not`).
Truthy(x) ==
    CASE x.t = "bool" -> x.v
      [] x.t = "int" -> x.v # 0
      [] x.t = "str" -> Len(x.v) > 0
      [] OTHER -> FALSE

\* The integer a comparison sees: bool is a subclass of int.
IntValue(x) == IF x.t = "bool" THEN (IF x.v THEN 1 ELSE 0) ELSE x.v

(***************************************************************************)
(* String literals of the source, as character sequences                   *)
(***************************************************************************)
s_weak == <<"w", "e", "a", "k">>
s_none == <<"n", "o", "n", "e">>
s_poor == <<"p", "o", "o", "r">>
s_average == <<"a", "v", "e", "r", "a", "g", "e">>
s_good == <<"g", "o", "o", "d">>
s_unknown == <<"u", "n", "k", "n", "o", "w", "n">>
s_small == <<"s", "m", "a", "l", "l">>
s_medium == <<"m", "e", "d", "i", "u", "m">>
s_large == <<"l", "a", "r", "g", "e">>
s_very_large == <<"v", "e", "r", "y", " ", "l", "a", "r", "g", "e">>
s_low == <<"l", "o", "w">>
s_high == <<"h", "i", "g", "h">>
s_very_high == <<"v", "e", "r", "y", " ", "h", "i", "g", "h">>
s_general == <<"g", "e", "n", "e", "r", "a", "l">>
s_strong == <<"s", "t", "r", "o", "n", "g">>
s_finance == <<"f", "i", "n", "a", "n", "c", "e">>
\* A value no rule recognises.
s_other == <<"n", "/", "a">>

(***************************************************************************)
(* OFFER_CATALOG                                                           *)
(***************************************************************************)
SolutionAreas ==
    <<"IAM", "Data & AI Security", "SecOps", "Cloud Security",
      "Cross-Solution Security">>

\* The catalog with the Copilot offer under its short name.
CatalogShortCopilot ==
    [a \in {SolutionAreas[i] : i \in 1..Len(SolutionAreas)} |->
        CASE a = "IAM" ->
                <<"Identity Diagnostics", "Identity Modernization">>
          [] a = "Data & AI Security" ->
                <<"Data & AI Security Diagnostics",
                  "Data Protection Modernization">>
          [] a = "SecOps" ->
                <<"RED Sentinel", "RED Defender",
                  "Security Copilot Accelerator",
                  "Unified Threat Protection (Sentinel, TI, Defender XDR, Copilot)">>
          [] a = "Cloud Security" ->
                <<"Cloud Security Optimization (CSPM)",
                  "Cloud Security Modernization (CWPP)">>
          [] a = "Cross-Solution Security" ->
                <<"Security Posture Assessment",
                  "Zero Trust Maturity Roadmap",
                  "Microsoft Security Factory Integration">>]

OFFER_CATALOG ==
    [a \in {SolutionAreas[i] : i \in 1..Len(SolutionAreas)} |->
        CASE a = "IAM" ->
                <<"Identity Diagnostics", "Identity Modernization">>
          [] a = "Data & AI Security" ->
                <<"Data & AI Security Diagnostics",
                  "Data Protection Modernization">>
          [] a = "SecOps" ->
                <<"RED Sentinel", "RED Defender",
                  "Security Copilot Accelerator (including Agentic)",
                  "Unified Threat Protection (Sentinel, TI, Defender XDR, Copilot)">>
          [] a = "Cloud Security" ->
                <<"Cloud Security Optimization (CSPM)",
                  "Cloud Security Modernization (CWPP)">>
          [] a = "Cross-Solution Security" ->
                <<"Security Posture Assessment",
                  "Zero Trust Maturity Roadmap",
                  "Microsoft Security Factory Integration">>]

(***************************************************************************)
(* Thresholds of the rules                                                 *)
(***************************************************************************)
LowPropensity == 40
DataPropensity == 60
UnifiedPropensity == 70
HighPropensity == 80
CapstoneMinRecs == 3
DefaultPropensity == 0

(***************************************************************************)
(* evaluate_rules                                                          *)
(***************************************************************************)
Rec(area, primary, followup, rationale, timeline) ==
    [SolutionArea |-> area, PrimaryOffer |-> primary,
     FollowUpOffer |-> followup, Rationale |-> rationale,
     Timeline |-> timeline]

\* dict.get(key) with no default: None when the key is absent.
GetNoDefault(c, key, default) ==
    IF key \in DOMAIN c THEN c[key] ELSE None

\* dict.get(key, default)
Get(c, key, default) ==
    IF key \in DOMAIN c THEN c[key] ELSE default

IdentityDiagnosticsRec ==
    Rec("IAM", "Identity Diagnostics", "Identity Modernization",
        "Low identity maturity or limited E5 readiness. Begin with diagnostics to identify Entra security gaps before modernization.",
        "2-4 weeks")

IdentityModernizationRec ==
    Rec("IAM", "Identity Modernization", "Identity Diagnostics",
        "Moderate readiness with decent identity posture. Focus on Conditional Access, PIM automation, and governance.",
        "4-6 weeks")

\* IAMRule with the first comparison written <= instead of <.
IAMRuleInclusive(rs, propensity, identity_maturity) ==
    IF propensity <= LowPropensity
       \/ identity_maturity \in {s_weak, s_none, s_poor}
    THEN Append(rs, IdentityDiagnosticsRec)
    ELSE IF LowPropensity <= propensity /\ propensity < HighPropensity
            /\ identity_maturity \in {s_average, s_good}
    THEN Append(rs, IdentityModernizationRec)
    ELSE rs

IAMRule(rs, propensity, identity_maturity) ==
    IF propensity < LowPropensity
       \/ identity_maturity \in {s_weak, s_none, s_poor}
    THEN Append(rs, IdentityDiagnosticsRec)
    ELSE IF LowPropensity <= propensity /\ propensity < HighPropensity
            /\ identity_maturity \in {s_average, s_good}
    THEN Append(rs, IdentityModernizationRec)
    ELSE rs

DataRule(rs, propensity, data_risk) ==
    IF data_risk \in {s_high, s_very_high}
    THEN Append(rs, Rec("Data & AI Security",
            "Data & AI Security Diagnostics",
            "Data Protection Modernization",
            "High data risk detected. Run diagnostic to assess labeling, insider risk, and AI data protection.",
            "3-5 weeks"))
    ELSE IF propensity >= DataPropensity /\ data_risk = s_medium
    THEN Append(rs, Rec("Data & AI Security",
            "Data Protection Modernization",
            "Data & AI Security Diagnostics",
            "Moderate data risk with E5 potential. Prioritize modernization to extend Microsoft Purview and Insider Risk tools.",
            "4-6 weeks"))
    ELSE rs

UnifiedRec ==
    Rec("SecOps",
        "Unified Threat Protection (Sentinel, TI, Defender XDR, Copilot)",
        "Security Copilot Accelerator (including Agentic)",
        "High ACR and E5 readiness suggest opportunity for integrated SOC. Deploy unified detection and AI-assisted incident response.",
        "4-6 weeks")

RedSentinelRec ==
    Rec("SecOps", "RED Sentinel",
        "Unified Threat Protection (Sentinel, TI, Defender XDR, Copilot)",
        "High E5 and security ACR levels with active Defender or Sentinel. Deploy RED Sentinel to accelerate modernization.",
        "4-6 weeks")

RedDefenderRec ==
    Rec("SecOps", "RED Defender",
        "Security Copilot Accelerator (including Agentic)",
        "Mid-level E5 readiness and medium security ACR. Start with Defender hardening and introduce Copilot for AI-driven detection.",
        "4-5 weeks")

\* SecOpsRule with the RED Sentinel tier tested before the unified tier.
SecOpsRuleSentinelFirst(rs, propensity, security_acr, sentinel_acr, defender_active, sentinel_active) ==
    IF propensity >= HighPropensity
       /\ (Truthy(defender_active) \/ Truthy(sentinel_active))
    THEN Append(rs, RedSentinelRec)
    ELSE IF (security_acr \in {s_large, s_very_large}
             \/ sentinel_acr \in {s_large, s_very_large})
            /\ propensity >= UnifiedPropensity
    THEN Append(rs, UnifiedRec)
    ELSE IF LowPropensity <= propensity /\ propensity < HighPropensity
            /\ security_acr \in {s_small, s_medium}
            /\ ~Truthy(sentinel_active)
    THEN Append(rs, RedDefenderRec)
    ELSE rs

\* SecOpsRule with every tier an `if` of its own instead of an `elif`.
SecOpsRuleNoElif(rs, propensity, security_acr, sentinel_acr, defender_active, sentinel_active) ==
    LET a == IF (security_acr \in {s_large, s_very_large}
                 \/ sentinel_acr \in {s_large, s_very_large})
                /\ propensity >= UnifiedPropensity
             THEN Append(rs, UnifiedRec) ELSE rs
        b == IF propensity >= HighPropensity
                /\ (Truthy(defender_active) \/ Truthy(sentinel_active))
             THEN Append(a, RedSentinelRec) ELSE a
    IN IF LowPropensity <= propensity /\ propensity < HighPropensity
          /\ security_acr \in {s_small, s_medium}
          /\ ~Truthy(sentinel_active)
       THEN Append(b, RedDefenderRec) ELSE b

\* SecOpsRule with the `not` of the RED Defender tier left out.
SecOpsRuleSentinelActive(rs, propensity, security_acr, sentinel_acr, defender_active, sentinel_active) ==
    IF (security_acr \in {s_large, s_very_large}
        \/ sentinel_acr \in {s_large, s_very_large})
       /\ propensity >= UnifiedPropensity
    THEN Append(rs, UnifiedRec)
    ELSE IF propensity >= HighPropensity
            /\ (Truthy(defender_active) \/ Truthy(sentinel_active))
    THEN Append(rs, RedSentinelRec)
    ELSE IF LowPropensity <= propensity /\ propensity < HighPropensity
            /\ security_acr \in {s_small, s_medium}
            /\ Truthy(sentinel_active)
    THEN Append(rs, RedDefenderRec)
    ELSE rs

SecOpsRule(rs, propensity, security_acr, sentinel_acr, defender_active, sentinel_active) ==
    IF (security_acr \in {s_large, s_very_large}
        \/ sentinel_acr \in {s_large, s_very_large})
       /\ propensity >= UnifiedPropensity
    THEN Append(rs, UnifiedRec)
    ELSE IF propensity >= HighPropensity
            /\ (Truthy(defender_active) \/ Truthy(sentinel_active))
    THEN Append(rs, RedSentinelRec)
    ELSE IF LowPropensity <= propensity /\ propensity < HighPropensity
            /\ security_acr \in {s_small, s_medium}
            /\ ~Truthy(sentinel_active)
    THEN Append(rs, RedDefenderRec)
    ELSE rs

CloudRule(rs, propensity, multicloud, cloud_maturity) ==
    IF Truthy(multicloud) /\ cloud_maturity \in {s_medium, s_low}
    THEN Append(rs, Rec("Cloud Security",
            "Cloud Security Optimization (CSPM)",
            "Cloud Security Modernization (CWPP)",
            "Multi-cloud setup with incomplete visibility. Optimize CSPM and extend CWPP workload protection.",
            "4-6 weeks"))
    ELSE IF cloud_maturity = s_high /\ propensity >= DataPropensity
    THEN Append(rs, Rec("Cloud Security",
            "Cloud Security Modernization (CWPP)",
            "Cloud Security Optimization (CSPM)",
            "High E5 readiness with mature cloud environment. Focus on CWPP for advanced container and workload protection.",
            "4-6 weeks"))
    ELSE rs

CapstoneRec ==
    Rec("Cross-Solution Security", "Zero Trust Maturity Roadmap",
        "Microsoft Security Factory Integration",
        "Multiple solution areas active. Recommend Zero Trust roadmap to integrate IAM, Data, Cloud, and SecOps programs.",
        "6-8 weeks")

\* CrossRule without the test of security_acr.
CrossRuleNoAcr(rs, propensity, security_acr) ==
    IF propensity >= UnifiedPropensity /\ Len(rs) >= CapstoneMinRecs
    THEN Append(rs, CapstoneRec)
    ELSE rs

\* CrossRule counting with > instead of >=.
CrossRuleStrict(rs, propensity, security_acr) ==
    IF propensity >= UnifiedPropensity
       /\ security_acr \in {s_large, s_very_large}
       /\ Len(rs) > CapstoneMinRecs
    THEN Append(rs, CapstoneRec)
    ELSE rs

CrossRule(rs, propensity, security_acr) ==
    IF propensity >= UnifiedPropensity
       /\ security_acr \in {s_large, s_very_large}
       /\ Len(rs) >= CapstoneMinRecs
    THEN Append(rs, CapstoneRec)
    ELSE rs

\* The fields on which the source calls .lower(), in the order of the reads.
LoweredFields ==
    <<"security_acr", "sentinel_acr", "identity_maturity", "industry",
      "data_risk", "cloud_maturity">>

FieldDefault(key) ==
    CASE key = "e5_propensity" -> PyInt(DefaultPropensity)
      [] key \in {"security_acr", "sentinel_acr", "data_risk",
                  "cloud_maturity"} -> PyStr(s_medium)
      [] key = "identity_maturity" -> PyStr(s_unknown)
      [] key = "industry" -> PyStr(s_general)
      [] OTHER -> PyBool(FALSE)

\* One read of lines 44-54: client.get(key, default).
Read(c, key) == Get(c, key, FieldDefault(key))

\* The result of a call: the exception it raises ("none" when it returns) and
\* the list it returns.
evaluate_rules(c) ==
    IF \E i \in 1..Len(LoweredFields) : Read(c, LoweredFields[i]).t # "str"
    THEN [raised |-> "AttributeError", recs |-> <<>>]
    ELSE IF Read(c, "e5_propensity").t \notin {"int", "bool"}
    THEN [raised |-> "TypeError", recs |-> <<>>]
    ELSE
    LET propensity == IntValue(Read(c, "e5_propensity"))
        security_acr == Lower(Read(c, "security_acr").v)
        sentinel_acr == Lower(Read(c, "sentinel_acr").v)
        identity_maturity == Lower(Read(c, "identity_maturity").v)
        defender_active == Read(c, "defender_active")
        sentinel_active == Read(c, "sentinel_active")
        industry == Lower(Read(c, "industry").v)
        recent_incident == Read(c, "recent_incident")
        multicloud == Read(c, "multicloud")
        data_risk == Lower(Read(c, "data_risk").v)
        cloud_maturity == Lower(Read(c, "cloud_maturity").v)
        r1 == IAMRule(<<>>, propensity, identity_maturity)
        r2 == DataRule(r1, propensity, data_risk)
        r3 == SecOpsRule(r2, propensity, security_acr, sentinel_acr,
                         defender_active, sentinel_active)
        r4 == CloudRule(r3, propensity, multicloud, cloud_maturity)
        r5 == CrossRule(r4, propensity, security_acr)
    IN [raised |-> "none", recs |-> r5]

(***************************************************************************)
(* Client records                                                          *)
(***************************************************************************)
\* How far around each threshold the sampled propensity scores reach.
PropensityMargin == 1
SliderMin == 0
SliderMax == 100
SliderDefault == 75

Thresholds ==
    {LowPropensity, DataPropensity, UnifiedPropensity, HighPropensity}

PropensityValues ==
    {SliderMin, 50, SliderDefault, SliderMax}
    \cup UNION {(t - PropensityMargin)..(t + PropensityMargin) : t \in Thresholds}

Empty == [k \in {} |-> None]

Present(key, values) == {key :> x : x \in values}
Optional(key, values) == {Empty} \cup Present(key, values)

\* The labels of a select box whose options are the given lower-case words.
Labels(options) == {PyStr(Title(s)) : s \in options}

Flags == {PyBool(x) : x \in BOOLEAN}

\* client_data as the form builds it: every key present, the categorical
\* values being labels of the select boxes.
FormProfiles ==
    [e5_propensity : {PyInt(n) : n \in PropensityValues},
     security_acr : Labels({s_small, s_medium, s_large, s_very_large}),
     sentinel_acr : Labels({s_medium, s_very_large}),
     identity_maturity : Labels({s_weak, s_average, s_good, s_strong}),
     defender_active : Flags,
     sentinel_active : Flags,
     industry : Labels({s_finance}),
     recent_incident : Flags,
     multicloud : Flags,
     data_risk : Labels({s_low, s_medium, s_very_high}),
     cloud_maturity : Labels({s_low, s_medium, s_high})]

\* Records a caller passes directly: any key may be absent, categorical values
\* are lower-case or unrecognised strings.
DirectProfiles ==
    {a @@ b @@ c @@ d @@ e @@ f @@ g @@ h @@ i @@ j @@ k :
        a \in Optional("e5_propensity", {PyInt(50), PyInt(SliderDefault)}),
        b \in Optional("security_acr", {PyStr(s_large), PyStr(s_other)}),
        c \in Optional("sentinel_acr", {PyStr(s_large)}),
        d \in Optional("identity_maturity",
                {PyStr(s_weak), PyStr(s_none), PyStr(s_poor), PyStr(s_unknown)}),
        e \in Optional("defender_active", {PyBool(FALSE)}),
        f \in Optional("sentinel_active", {PyBool(FALSE)}),
        g \in Optional("industry", {PyStr(s_general)}),
        h \in Optional("recent_incident", {PyBool(TRUE)}),
        i \in Optional("multicloud", {PyBool(TRUE), PyBool(FALSE)}),
        j \in Optional("data_risk", {PyStr(s_high), PyStr(s_medium), PyStr(s_other)}),
        k \in Optional("cloud_maturity", {PyStr(s_low), PyStr(s_medium), PyStr(s_other)})}

(***************************************************************************)
(* The form                                                                *)
(***************************************************************************)
Init ==
    /\ client \in FormProfiles \cup DirectProfiles
    /\ submitted = FALSE
    /\ recs = <<>>
    /\ raised = "none"

\* The form is submitted: evaluate_rules runs on the record.
Submit ==
    /\ ~submitted
    /\ submitted' = TRUE
    /\ recs' = evaluate_rules(client).recs
    /\ raised' = evaluate_rules(client).raised
    /\ UNCHANGED client

Next == Submit

Spec == Init /\ [][Next]_vars

(***************************************************************************)
(* Properties                                                              *)
(***************************************************************************)
Range(q) == {q[n] : n \in 1..Len(q)}

\* The values evaluate_rules works with for the submitted record.
Propensity == IntValue(Read(client, "e5_propensity"))
SecurityAcr == Lower(Read(client, "security_acr").v)
SentinelAcr == Lower(Read(client, "sentinel_acr").v)
IdentityMaturity == Lower(Read(client, "identity_maturity").v)
DataRisk == Lower(Read(client, "data_risk").v)
CloudMaturity == Lower(Read(client, "cloud_maturity").v)
DefenderActive == Truthy(Read(client, "defender_active"))
SentinelActive == Truthy(Read(client, "sentinel_active"))
Multicloud == Truthy(Read(client, "multicloud"))
RecentIncident == Truthy(Read(client, "recent_incident"))

\* The recommendations of one solution area, in output order.
OfArea(area) == SelectSeq(recs, LAMBDA r : r.SolutionArea = area)

\* The number of recommendations of groups 1-4 in the output.
CoreCount ==
    Cardinality({n \in 1..Len(recs) :
        recs[n].SolutionArea \in
            {"IAM", "Data & AI Security", "SecOps", "Cloud Security"}})

IsCapstone(r) ==
    /\ r.SolutionArea = "Cross-Solution Security"
    /\ r.PrimaryOffer = "Zero Trust Maturity Roadmap"

HasCapstone == \E n \in 1..Len(recs) : IsCapstone(recs[n])

HasPrimary(offer) == \E n \in 1..Len(recs) : recs[n].PrimaryOffer = offer

UnifiedOffer ==
    "Unified Threat Protection (Sentinel, TI, Defender XDR, Copilot)"

\* The profile of the capstone example, every other key absent.
C1Profile ==
    [e5_propensity |-> PyInt(75), identity_maturity |-> PyStr(s_weak),
     data_risk |-> PyStr(s_high), multicloud |-> PyBool(TRUE),
     cloud_maturity |-> PyStr(s_low)]

C1ProfileSingleCloud == [C1Profile EXCEPT !.multicloud = PyBool(FALSE)]

C1ProfileLarge == ("security_acr" :> PyStr(s_large)) @@ C1Profile

C1ProfileLargeSingleCloud ==
    ("security_acr" :> PyStr(s_large)) @@ C1ProfileSingleCloud

C1ProfileLargeTwoMatches ==
    [C1ProfileLargeSingleCloud EXCEPT !.identity_maturity = PyStr(s_unknown)]

\* C1 as stated: the example profile yields the capstone, and the same
\* profile with multicloud = false does not.
C1_CapstoneExampleAsStated ==
    submitted =>
        /\ (client = C1Profile => HasCapstone)
        /\ (client = C1ProfileSingleCloud => ~HasCapstone)

\* C1 (amended): with security_acr left at its default "medium" the example
\* profile yields no capstone, with multicloud true or false.  With
\* security_acr = "large" it yields the capstone, and still does with
\* multicloud = false (IAM, Data and SecOps remain: 3 matches); the capstone
\* goes once identity_maturity is "unknown" as well (2 matches remain).
C1_CapstoneExample ==
    submitted =>
        /\ (client \in {C1Profile, C1ProfileSingleCloud} => ~HasCapstone)
        /\ (client \in {C1ProfileLarge, C1ProfileLargeSingleCloud}
                => HasCapstone)
        /\ (client = C1ProfileLargeTwoMatches => ~HasCapstone)

C1_Witness ==
    /\ submitted
    /\ client = C1ProfileLargeSingleCloud
    /\ Len(recs) = 4
    /\ HasCapstone

\* Every read of the record gives the value of the empty-result example:
\* e5_propensity 50, identity_maturity "unknown", data_risk and
\* cloud_maturity "medium", the flags false, the rest at the defaults.
IsC2Profile(c) ==
    /\ Read(c, "e5_propensity") = PyInt(50)
    /\ Read(c, "identity_maturity") = PyStr(s_unknown)
    /\ Read(c, "data_risk") = PyStr(s_medium)
    /\ Read(c, "cloud_maturity") = PyStr(s_medium)
    /\ \A k \in {"defender_active", "sentinel_active", "recent_incident",
                 "multicloud"} : Read(c, k) = PyBool(FALSE)
    /\ Read(c, "sentinel_acr") = PyStr(s_medium)
    /\ Read(c, "industry") = PyStr(s_general)

\* C2 as stated: the example profile yields the empty list.
C2_EmptyResultAsStated ==
    submitted /\ IsC2Profile(client)
              /\ Read(client, "security_acr") = PyStr(s_medium)
        => recs = <<>>

\* C2 (amended): the example profile yields exactly one recommendation, the
\* SecOps RED Defender one (security_acr defaults to "medium"); the list is
\* empty when security_acr is "large" instead.
C2_EmptyResult ==
    submitted /\ IsC2Profile(client) =>
        /\ Read(client, "security_acr") = PyStr(s_medium)
              => recs = <<RedDefenderRec>>
        /\ Read(client, "security_acr") = PyStr(s_large) => recs = <<>>

C2_Witness ==
    /\ submitted
    /\ IsC2Profile(client)
    /\ "security_acr" \notin DOMAIN client
    /\ Len(recs) = 1

\* The record with recent_incident set to b.
WithIncident(c, b) == ("recent_incident" :> PyBool(b)) @@ c

\* C3: whenever recent_incident is true the output holds a recommendation
\* that the output for the same record with recent_incident = false lacks.
C3_IncidentRule ==
    submitted /\ raised = "none" /\ RecentIncident =>
        \E n \in 1..Len(recs) :
            recs[n] \notin Range(evaluate_rules(WithIncident(client, FALSE)).recs)

\* C4: the capstone is in the output iff e5_propensity >= 70, security_acr
\* lower-cased is large or very large and groups 1-4 emitted at least 3
\* recommendations; when present it occurs once and is the last element.
C4_CapstoneIff ==
    submitted =>
        /\ HasCapstone <=>
              /\ Propensity >= 70
              /\ SecurityAcr \in {s_large, s_very_large}
              /\ CoreCount >= 3
        /\ HasCapstone =>
              /\ Cardinality({n \in 1..Len(recs) :
                    recs[n].SolutionArea = "Cross-Solution Security"}) = 1
              /\ IsCapstone(recs[Len(recs)])

C4_Witness ==
    submitted /\ HasCapstone /\ CoreCount = 3 /\ Propensity = 70

\* C5: the identity group contributes exactly the Diagnostics-first
\* recommendation when e5_propensity < 40 or identity_maturity is
\* weak/none/poor, otherwise exactly the Modernization-first one when
\* 40 <= e5_propensity < 80 and identity_maturity is average/good, otherwise
\* nothing; e5_propensity = 40 with weak maturity gives Diagnostics-first only.
C5_IdentityGroup ==
    submitted =>
        LET iam == OfArea("IAM")
        IN IF Propensity < 40 \/ IdentityMaturity \in {s_weak, s_none, s_poor}
           THEN /\ Len(iam) = 1
                /\ iam[1].PrimaryOffer = "Identity Diagnostics"
                /\ iam[1].FollowUpOffer = "Identity Modernization"
           ELSE IF 40 <= Propensity /\ Propensity < 80
                   /\ IdentityMaturity \in {s_average, s_good}
           THEN /\ Len(iam) = 1
                /\ iam[1].PrimaryOffer = "Identity Modernization"
                /\ iam[1].FollowUpOffer = "Identity Diagnostics"
           ELSE iam = <<>>

C5_Witness ==
    /\ submitted
    /\ Propensity = 40
    /\ IdentityMaturity = s_weak
    /\ Len(OfArea("IAM")) = 1
    /\ OfArea("IAM")[1].PrimaryOffer = "Identity Diagnostics"

UnifiedTier ==
    /\ Propensity >= 70
    /\ \/ SecurityAcr \in {s_large, s_very_large}
       \/ SentinelAcr \in {s_large, s_very_large}

RedSentinelTier == Propensity >= 80 /\ (DefenderActive \/ SentinelActive)

RedDefenderTier ==
    /\ 40 <= Propensity /\ Propensity < 80
    /\ SecurityAcr \in {s_small, s_medium}
    /\ ~SentinelActive

\* C6: the SecOps group emits at most one recommendation, that of the highest
\* tier whose predicate holds (Unified Threat Protection, then RED Sentinel,
\* then RED Defender); e5_propensity = 80 never yields RED Defender and
\* e5_propensity = 40 never yields RED Sentinel.
C6_SecOpsTiers ==
    submitted =>
        LET so == OfArea("SecOps")
        IN /\ Len(so) <= 1
           /\ IF UnifiedTier THEN so = <<UnifiedRec>>
              ELSE IF RedSentinelTier THEN so = <<RedSentinelRec>>
              ELSE IF RedDefenderTier THEN so = <<RedDefenderRec>>
              ELSE so = <<>>
           /\ Propensity = 80 => ~HasPrimary("RED Defender")
           /\ Propensity = 40 => ~HasPrimary("RED Sentinel")

\* e5_propensity = 40 yields RED Defender.
C6_Witness ==
    submitted /\ Propensity = 40 /\ HasPrimary("RED Defender")

\* The place of a solution area in the declaration order.
AreaIndex(area) ==
    CHOOSE n \in 1..Len(SolutionAreas) : SolutionAreas[n] = area

\* C7: the solution areas of the output, read in order, are strictly
\* increasing in the declaration order IAM, Data & AI Security, SecOps, Cloud
\* Security, Cross-Solution Security; so each appears at most once and the
\* list has at most 5 elements.
C7_DeclarationOrder ==
    submitted =>
        /\ \A n \in 1..Len(recs) : recs[n].SolutionArea \in Range(SolutionAreas)
        /\ \A m, n \in 1..Len(recs) :
              m < n => AreaIndex(recs[m].SolutionArea)
                          < AreaIndex(recs[n].SolutionArea)
        /\ Len(recs) <= 5

C7_Witness == submitted /\ Len(recs) = 5

Recognized(key) ==
    CASE key = "identity_maturity" ->
            {s_weak, s_none, s_poor, s_average, s_good}
      [] key = "security_acr" -> {s_small, s_medium, s_large, s_very_large}
      [] key = "data_risk" -> {s_medium, s_high, s_very_high}
      [] key = "cloud_maturity" -> {s_low, s_medium, s_high}

\* C8: for every record whose present values have the declared types, any
\* keys absent and categorical values possibly unrecognised, evaluate_rules
\* raises nothing and returns a list; an unrecognised categorical value only
\* makes the membership tests on that field false.
C8_Total ==
    submitted =>
        /\ raised = "none"
        /\ IdentityMaturity \notin Recognized("identity_maturity")
              => (Len(OfArea("IAM")) = 1 <=> Propensity < 40)
        /\ DataRisk \notin Recognized("data_risk")
              => OfArea("Data & AI Security") = <<>>
        /\ CloudMaturity \notin Recognized("cloud_maturity")
              => OfArea("Cloud Security") = <<>>
        /\ SecurityAcr \notin Recognized("security_acr")
              => /\ ~HasCapstone
                 /\ ~HasPrimary("RED Defender")
                 /\ HasPrimary(UnifiedOffer) <=>
                       /\ Propensity >= 70
                       /\ SentinelAcr \in {s_large, s_very_large}

\* The record with every key absent is evaluated and nothing is raised.
C8_Witness ==
    /\ submitted
    /\ DOMAIN client = {}
    /\ raised = "none"
    /\ Len(recs) = 1

\* C9: every recommendation's Primary Offer and Follow-up Offer are listed in
\* OFFER_CATALOG under its own Solution Area, and the two are distinct.
C9_OffersInCatalog ==
    submitted =>
        \A n \in 1..Len(recs) :
            /\ recs[n].SolutionArea \in DOMAIN OFFER_CATALOG
            /\ recs[n].PrimaryOffer
                  \in Range(OFFER_CATALOG[recs[n].SolutionArea])
            /\ recs[n].FollowUpOffer
                  \in Range(OFFER_CATALOG[recs[n].SolutionArea])
            /\ recs[n].PrimaryOffer # recs[n].FollowUpOffer

C9_Witness ==
    /\ submitted
    /\ Len(recs) = 5
    /\ HasPrimary("Identity Modernization")
    /\ HasPrimary("Cloud Security Modernization (CWPP)")

\* The number of recommendations of the IAM, Data and Cloud groups.
NonSecOpsCount ==
    Cardinality({n \in 1..Len(recs) :
        recs[n].SolutionArea \in
            {"IAM", "Data & AI Security", "Cloud Security"}})

\* C10: whenever the output holds the capstone it also holds the SecOps
\* Unified Threat Protection recommendation, never RED Sentinel or RED
\* Defender, and at least two recommendations of the IAM, Data and Cloud
\* groups.
C10_CapstoneImpliesUnified ==
    submitted /\ HasCapstone =>
        /\ OfArea("SecOps") = <<UnifiedRec>>
        /\ ~HasPrimary("RED Sentinel")
        /\ ~HasPrimary("RED Defender")
        /\ NonSecOpsCount >= 2

\* The capstone with only two matches among IAM, Data and Cloud.
C10_Witness ==
    submitted /\ HasCapstone /\ NonSecOpsCount = 2

====
